---- MODULE Spec2Model ----
(***************************************************************************)
(* plcrash::dwarf_cfa_stack<T, S> (Source/dwarf_cfa_stack.h): a pool of S  *)
(* pre-allocated register entries, threaded either on a free list or on    *)
(* one of the 15 bucket chains of the current row of a 6-row table.        *)
(*                                                                         *)
(* Pointers into _entries are modelled by their index: &_entries[i] is i,  *)
(* NULL is -1.  Index S is the address one past the pool: the constructor  *)
(* forms it, and for S = 0 it is what _free_list is set to.  The storage   *)
(* found there is not part of the object; its content is arbitrary.        *)
(***************************************************************************)
EXTENDS Integers, FiniteSets, Sequences

\* ------------------------------------------------------------------ bounds

\* Largest pool capacity S (the template parameter) the model instantiates.
MaxS == 3

\* ------------------------------------------------------- program constants

\* _table_stack[6][15]: rows (saved states) and buckets per row.
NumRows == 6
NumBuckets == 15

\* The null pointer.
NULL == -1

\* The single enumerator of dwarf_cfa_reg_rule_t.
DWARF_CFA_REG_RULE_OFFSET == 0

\* A field that no statement has written yet (the constructor initialises
\* only the next links of the pool; the caller's out objects start unwritten).
Indeterminate == -2

\* ------------------------------------------------------------------ inputs

\* Register numbers the callers pass: 5, 20 and 35 share bucket 5, 7 does not.
Regs == {5, 20, 35, 7}

\* Values of the dwarf_cfa_reg_rule_t enumeration.
Rules == {DWARF_CFA_REG_RULE_OFFSET}

\* Values of T the callers pass.
Vals == {8, 16}

\* ------------------------------------------------------------------- state

VARIABLES
    S,            \* template parameter: the capacity of the pool
    table_stack,  \* _table_stack[row][bucket]: head of a bucket chain
    table_pos,    \* _table_pos: the current row
    free_list,    \* _free_list: head of the free list
    entries,      \* _entries[0..S-1], and at index S the storage after the pool
    status,       \* "running", "hung" (a walk never ends), "crashed" (wild access)
    op,           \* the last call made: "none", "add_register", "get_register_rule"
    arg,          \* its arguments: <<regnum, rule, value>> or <<regnum>>
    ret,          \* its return value
    rule_out,     \* the caller's *rule object
    value_out,    \* the caller's *value object
    lastCall,     \* history: regnum -> <<rule, value>> of the latest add_register call, or <<>>
    added,        \* history: the regnums for which an add_register call returned true
    repeated      \* history: the last call was the same call, with the same arguments, as the one before

vars == <<S, table_stack, table_pos, free_list, entries, status, op, arg, ret,
          rule_out, value_out, lastCall, added, repeated>>

\* The indices of the pool.
Pool == 0 .. (S - 1)

\* ------------------------------------------------------------- constructor

\* Mutant of CtorLinks: line 127 is missing, the last entry keeps the link the
\* loop gave it, to &_entries[S].
CtorLinks_NoTerminator(s) == [i \in 0 .. (s - 1) |-> i + 1]

\* Lines 124-127: the loop links entry i to &_entries[i+1], then the last entry
\* is terminated. With S = 0 the loop body never runs, and _entries[S-1] (S - 1
\* wraps to SIZE_MAX) is neither an entry of the pool nor the storage after it:
\* its next field lies just before _entries, where _free_list is declared, and
\* lines 128-132 assign _free_list, _table_pos and _table_stack afterwards.
CtorLinks(s) ==
    LET looped == [i \in 0 .. (s - 1) |-> i + 1]
    IN  [i \in 0 .. (s - 1) |-> IF i = s - 1 THEN NULL ELSE looped[i]]

\* Lines 125 and 127: the indices i of the entries _entries[i] whose next the
\* constructor assigns (for S = 0, S - 1 stands for the wrapped index SIZE_MAX,
\* which addresses the element before _entries[0]).
CtorWritten(s) == (0 .. (s - 1)) \cup {s - 1}

\* Line 128: _free_list = &_entries[0], whatever S is.
CtorFreeList == 0

\* Line 131.
CtorTablePos == 0

\* Line 132: plcrash_async_memset(_table_stack, 0, sizeof(_table_stack)).
CtorTable == [row \in 0 .. (NumRows - 1) |-> [b \in 0 .. (NumBuckets - 1) |-> NULL]]

\* What reading a next pointer that was never written may yield: null, the
\* address of a modelled slot, or an address outside the model (S + 1).
Garbage(s) == {NULL} \cup (0 .. (s + 1))

Constructed ==
    /\ table_stack = CtorTable
    /\ table_pos = CtorTablePos
    /\ free_list = CtorFreeList
    /\ entries = [i \in 0 .. S |->
                    [regnum |-> Indeterminate, rule |-> Indeterminate,
                     value |-> Indeterminate,
                     next |-> IF i \in CtorWritten(S) THEN CtorLinks(S)[i]
                              ELSE Indeterminate]]
    /\ status = "running"
    /\ op = "none"
    /\ arg = <<>>
    /\ ret = FALSE
    /\ rule_out = Indeterminate
    /\ value_out = Indeterminate
    /\ lastCall = [r \in Regs |-> <<>>]
    /\ added = {}
    /\ repeated = FALSE

\* A pool of at least one entry (an array bound C++ accepts).
Init == S \in 1 .. MaxS /\ Constructed

\* The empty pool, dwarf_cfa_stack<T, 0> (a zero-length array, a compiler extension).
InitZero == S = 0 /\ Constructed

\* ------------------------------------------------------------ add_register

\* Mutant of Bucket: the quotient is taken where the remainder is meant.
Bucket_Quotient(regnum) == regnum \div NumBuckets

\* Lines 144 and 197: regnum % (number of buckets of a row).
Bucket(regnum) == regnum % NumBuckets

\* Mutant of AddWalk: the regnum comparison (lines 148-152) is missing, the
\* search always runs to the end of the chain.
RECURSIVE AddWalk_NeverFound(_, _, _, _)
AddWalk_NeverFound(ents, p, regnum, fuel) ==
    IF p = NULL THEN [kind |-> "end", node |-> NULL]
    ELSE IF p \notin DOMAIN ents THEN [kind |-> "crash", node |-> p]
    ELSE IF fuel = 0 THEN [kind |-> "hang", node |-> p]
    ELSE IF ents[p].next = NULL THEN [kind |-> "end", node |-> p]
    ELSE AddWalk_NeverFound(ents, ents[p].next, regnum, fuel - 1)

\* Mutant of AddWalk: the end-of-chain test (line 155) comes before the regnum
\* comparison (line 148), so the last entry of a chain is never matched.
RECURSIVE AddWalk_BreakFirst(_, _, _, _)
AddWalk_BreakFirst(ents, p, regnum, fuel) ==
    IF p = NULL THEN [kind |-> "end", node |-> NULL]
    ELSE IF p \notin DOMAIN ents THEN [kind |-> "crash", node |-> p]
    ELSE IF fuel = 0 THEN [kind |-> "hang", node |-> p]
    ELSE IF ents[p].next = NULL THEN [kind |-> "end", node |-> p]
    ELSE IF ents[p].regnum = regnum THEN [kind |-> "found", node |-> p]
    ELSE AddWalk_BreakFirst(ents, ents[p].next, regnum, fuel - 1)

\* Lines 146-157: the search of a bucket chain, starting at p. It ends with the
\* entry holding regnum ("found"), or with the last entry of the chain, or
\* NULL for an empty bucket ("end"). A chain with a cycle and no match never
\* ends the loop ("hang"); following an address outside the model is "crash".
RECURSIVE AddWalk(_, _, _, _)
AddWalk(ents, p, regnum, fuel) ==
    IF p = NULL THEN [kind |-> "end", node |-> NULL]
    ELSE IF p \notin DOMAIN ents THEN [kind |-> "crash", node |-> p]
    ELSE IF fuel = 0 THEN [kind |-> "hang", node |-> p]
    ELSE IF ents[p].regnum = regnum THEN [kind |-> "found", node |-> p]
    ELSE IF ents[p].next = NULL THEN [kind |-> "end", node |-> p]
    ELSE AddWalk(ents, ents[p].next, regnum, fuel - 1)

\* Mutant of UpdateEntry: the assignment of line 149 is missing.
UpdateEntry_RuleOnly(ents, node, rule, value) ==
    [ents EXCEPT ![node].rule = rule]

\* Mutant of UpdateEntry: the entry is initialised as a new one is (lines
\* 172-175), its link included.
UpdateEntry_ResetsNext(ents, node, rule, value) ==
    [ents EXCEPT ![node].value = value, ![node].rule = rule, ![node].next = NULL]

\* Lines 149-150: re-use of the existing entry.
UpdateEntry(ents, node, rule, value) ==
    [ents EXCEPT ![node].value = value, ![node].rule = rule]

\* Mutant of InitEntry: the assignment of line 174 is missing, the value of the
\* new entry stays unwritten.
InitEntry_NoValue(ents, entry, regnum, rule, value) ==
    [ents EXCEPT ![entry].regnum = regnum, ![entry].rule = rule,
                 ![entry].next = NULL]

\* Mutant of InitEntry: the assignment of line 175 is missing, the entry keeps
\* the link it had on the free list.
InitEntry_KeepNext(ents, entry, regnum, rule, value) ==
    [ents EXCEPT ![entry].regnum = regnum, ![entry].rule = rule,
                 ![entry].value = value]

\* Lines 172-175: initialisation of the entry taken from the free list.
InitEntry(ents, entry, regnum, rule, value) ==
    [ents EXCEPT ![entry] = [regnum |-> regnum, rule |-> rule,
                             value |-> value, next |-> NULL]]

\* Mutant of LinkEntries: line 181 assigns parent where entry is meant.
LinkEntries_LinksParent(ents, parent, entry) ==
    IF parent = NULL THEN ents ELSE [ents EXCEPT ![parent].next = parent]

\* Lines 178-182, the pool side: the entry is chained behind parent, if any.
LinkEntries(ents, parent, entry) ==
    IF parent = NULL THEN ents ELSE [ents EXCEPT ![parent].next = entry]

\* Mutant of LinkTable: the head is assigned in the row after the current one.
LinkTable_NextRow(table, pos, bucket, parent, entry) ==
    IF parent = NULL THEN [table EXCEPT ![pos + 1][bucket] = entry] ELSE table

\* Mutant of LinkTable: the bucket head is assigned whether or not the chain
\* had a last entry (the test of line 178 is missing).
LinkTable_Overwrite(table, pos, bucket, parent, entry) ==
    [table EXCEPT ![pos][bucket] = entry]

\* Lines 178-182, the table side: the entry heads the bucket if it was empty.
LinkTable(table, pos, bucket, parent, entry) ==
    IF parent = NULL THEN [table EXCEPT ![pos][bucket] = entry] ELSE table

\* Mutant of PopFreeList: the assignment of line 169 is missing, the free list
\* still starts at the entry taken.
PopFreeList_NoAdvance(ents, entry) == {entry}

\* Line 169: the free list advances to the successor of the entry taken
\* (the values the read of entry->next may yield).
PopFreeList(ents, entry) ==
    IF ents[entry].next = Indeterminate THEN Garbage(S) ELSE {ents[entry].next}

\* Mutant of NoFreeEntry: with no entry free, the last entry of the chain is
\* taken over for the new regnum before false is returned.
NoFreeEntry_Evicts(ents, parent, regnum, rule, value) ==
    IF parent = NULL THEN ents
    ELSE [ents EXCEPT ![parent].regnum = regnum, ![parent].rule = rule,
                      ![parent].value = value]

\* Lines 164-168: with _free_list NULL the call returns before any assignment
\* to an entry; the result is the pool it leaves.
NoFreeEntry(ents, parent, regnum, rule, value) == ents

\* The call ends without returning: only the status changes.
Stops(name, a, how) ==
    /\ status' = how
    /\ op' = name
    /\ arg' = a
    /\ repeated' = (op = name /\ arg = a)
    /\ UNCHANGED <<S, table_stack, table_pos, free_list, entries, ret,
                   rule_out, value_out, lastCall, added>>

\* Lines 142-185.
add_register(regnum, rule, value) ==
    LET bucket == Bucket(regnum)
        w == AddWalk(entries, table_stack[table_pos][bucket], regnum, S + 1)
        parent == w.node
        entry == free_list
        a == <<regnum, rule, value>>
        returns(r) ==
            /\ ret' = r
            /\ op' = "add_register"
            /\ arg' = a
            /\ repeated' = (op = "add_register" /\ arg = a)
            /\ lastCall' = [lastCall EXCEPT ![regnum] = <<rule, value>>]
            /\ added' = IF r THEN added \cup {regnum} ELSE added
            /\ UNCHANGED <<S, table_pos, status, rule_out, value_out>>
    IN  /\ status = "running"
        /\ CASE w.kind = "hang" -> Stops("add_register", a, "hung")
             [] w.kind = "crash" -> Stops("add_register", a, "crashed")
             [] w.kind = "found" ->
                  /\ entries' = UpdateEntry(entries, parent, rule, value)
                  /\ UNCHANGED <<table_stack, free_list>>
                  /\ returns(TRUE)
             [] w.kind = "end" /\ entry = NULL ->
                  /\ entries' = NoFreeEntry(entries, parent, regnum, rule, value)
                  /\ UNCHANGED <<table_stack, free_list>>
                  /\ returns(FALSE)
             [] w.kind = "end" /\ entry # NULL /\ entry \notin DOMAIN entries ->
                  Stops("add_register", a, "crashed")
             [] OTHER ->
                  /\ free_list' \in PopFreeList(entries, entry)
                  /\ entries' = LinkEntries(InitEntry(entries, entry, regnum, rule, value),
                                            parent, entry)
                  /\ table_stack' = LinkTable(table_stack, table_pos, bucket, parent, entry)
                  /\ returns(TRUE)

\* ------------------------------------------------------- get_register_rule

\* Mutant of GetWalk: the comparison of line 200 is missing, the first entry of
\* the bucket is taken for the one searched.
GetWalk_FirstInBucket(ents, p, regnum, fuel) ==
    IF p = NULL THEN [kind |-> "miss", node |-> NULL]
    ELSE IF p \notin DOMAIN ents THEN [kind |-> "crash", node |-> p]
    ELSE [kind |-> "hit", node |-> p]

\* Lines 199-207: the search of a bucket chain, starting at p: the first entry
\* holding regnum ("hit"), or the end of the chain ("miss").
RECURSIVE GetWalk(_, _, _, _)
GetWalk(ents, p, regnum, fuel) ==
    IF p = NULL THEN [kind |-> "miss", node |-> NULL]
    ELSE IF p \notin DOMAIN ents THEN [kind |-> "crash", node |-> p]
    ELSE IF fuel = 0 THEN [kind |-> "hang", node |-> p]
    ELSE IF ents[p].regnum # regnum THEN GetWalk(ents, ents[p].next, regnum, fuel - 1)
    ELSE [kind |-> "hit", node |-> p]

\* Mutant of CopyOut: the assignment of line 205 is missing, *rule keeps what
\* it held.
CopyOut_ValueOnly(ents, node, outs) ==
    [entries |-> ents, rule |-> outs.rule, value |-> ents[node].value]

\* Mutant of CopyOut: the assignment of line 204 is written the other way
\* round (entry->value = *value).
CopyOut_Reversed(ents, node, outs) ==
    [entries |-> [ents EXCEPT ![node].value = outs.value],
     rule |-> ents[node].rule, value |-> outs.value]

\* Lines 204-205: on a hit the entry's value and rule are copied to the caller's
\* objects; outs is what those held. The result is the pool and the objects after.
CopyOut(ents, node, outs) ==
    [entries |-> ents, rule |-> ents[node].rule, value |-> ents[node].value]

\* Lines 197-199: the chain searched for regnum is the one of its bucket in the
\* current row.
Lookup(ents, table, pos, regnum) ==
    GetWalk(ents, table[pos][Bucket(regnum)], regnum, S + 1)

\* Lines 195-211.
get_register_rule(regnum) ==
    LET w == Lookup(entries, table_stack, table_pos, regnum)
        c == CopyOut(entries, w.node, [rule |-> rule_out, value |-> value_out])
        returns(r) ==
            /\ ret' = r
            /\ op' = "get_register_rule"
            /\ arg' = <<regnum>>
            /\ repeated' = (op = "get_register_rule" /\ arg = <<regnum>>)
            /\ UNCHANGED <<S, table_stack, table_pos, free_list, status, lastCall, added>>
    IN  /\ status = "running"
        /\ CASE w.kind = "hang" -> Stops("get_register_rule", <<regnum>>, "hung")
             [] w.kind = "crash" -> Stops("get_register_rule", <<regnum>>, "crashed")
             [] w.kind = "hit" ->
                  /\ entries' = c.entries
                  /\ value_out' = c.value
                  /\ rule_out' = c.rule
                  /\ returns(TRUE)
             [] OTHER ->
                  /\ UNCHANGED <<entries, rule_out, value_out>>
                  /\ returns(FALSE)

\* ---------------------------------------------------------- specifications

AddRegister == \E regnum \in Regs, rule \in Rules, value \in Vals :
                   add_register(regnum, rule, value)

GetRegisterRule == \E regnum \in Regs : get_register_rule(regnum)

Next == AddRegister \/ GetRegisterRule

Spec == Init /\ [][Next]_vars

SpecZero == InitZero /\ [][Next]_vars

\* ------------------------------------------------------------ observations

Buckets == 0 .. (NumBuckets - 1)

\* The addresses a list starting at p runs through, in order. A list that
\* leaves the storage of the model, or reaches a link never written, ends
\* there; one with a cycle is cut after fuel addresses, a repetition included.
RECURSIVE Chain(_, _, _)
Chain(ents, p, fuel) ==
    IF p = NULL \/ fuel = 0 THEN <<>>
    ELSE IF p \notin DOMAIN ents THEN <<p>>
    ELSE IF ents[p].next = Indeterminate THEN <<p>>
    ELSE <<p>> \o Chain(ents, ents[p].next, fuel - 1)

FreeNodes == Chain(entries, free_list, S + 2)

BucketNodes(b) == Chain(entries, table_stack[table_pos][b], S + 2)

\* The places of the current row's chains that hold regnum r.
Holders(r) ==
    UNION {LET nodes == BucketNodes(b)
           IN  {<<b, i>> : i \in {j \in DOMAIN nodes :
                                     /\ nodes[j] \in DOMAIN entries
                                     /\ entries[nodes[j]].regnum = r}}
           : b \in Buckets}

\* Whether some entry of the current row holds regnum r.
InRow(r) == Holders(r) # {}

\* What a call get_register_rule(r) made in this state gives back.
Result(r) ==
    LET w == Lookup(entries, table_stack, table_pos, r)
        c == CopyOut(entries, w.node, [rule |-> rule_out, value |-> value_out])
    IN  IF w.kind = "hit" THEN <<"hit", c.rule, c.value>> ELSE <<w.kind>>

\* The members of the object (S is the template parameter).
Structure == <<S, table_stack, table_pos, free_list, entries>>

\* The regnums add_register has been called with.
Attempted == {r \in Regs : lastCall[r] # <<>>}

\* The answer that gives back the latest add_register call for r.
Latest(r) == <<"hit", lastCall[r][1], lastCall[r][2]>>

\* -------------------------------------------------------------------- C1

\* C1: while the add_register calls made so far used at most S distinct regnums,
\* get_register_rule(r) finds every regnum r that was added and gives the rule
\* and value of the latest add_register call for r, whatever was added since
\* for other regnums; a get_register_rule call that was just made returned so.
C1_GetReturnsLatestAdd ==
    Cardinality(Attempted) <= S =>
        /\ \A r \in Attempted : Result(r) = Latest(r)
        /\ (op = "get_register_rule" /\ arg[1] \in Attempted) =>
               /\ status = "running"
               /\ ret
               /\ <<"hit", rule_out, value_out>> = Latest(arg[1])

\* C1 witness: a full pool of at least two regnums of one bucket; the call that
\* just returned fetched value 16 for one whose neighbour was last given 8.
C1_Witness ==
    /\ S >= 2
    /\ Cardinality(Attempted) = S
    /\ op = "get_register_rule"
    /\ ret
    /\ value_out = 16
    /\ \E r \in Attempted \ {arg[1]} :
          Bucket(r) = Bucket(arg[1]) /\ lastCall[r] = <<DWARF_CFA_REG_RULE_OFFSET, 8>>

\* -------------------------------------------------------------------- C2

\* A step that is a call add_register(r, ...).
AddStep(r) == op' = "add_register" /\ arg'[1] = r /\ vars' # vars

\* C2: on a pool of S >= 1 entries, an add_register call with a regnum not
\* passed before returns true while fewer than S distinct regnums were passed,
\* and returns false for the (S+1)th distinct regnum, after which
\* get_register_rule gives for each of the first S regnums what it gave before.
C2_ExhaustionKeepsFirstS ==
    [][\A r \in Regs \ Attempted :
          (S >= 1 /\ AddStep(r)) =>
             /\ status' = "running"
             /\ Cardinality(Attempted) < S => ret'
             /\ Cardinality(Attempted) = S =>
                   /\ ~ret'
                   /\ \A q \in Attempted : Result(q)' = Result(q) /\ Result(q)[1] = "hit"]_vars

\* C2 witness: the call that just returned false passed a regnum never added,
\* to a pool of at least two entries, all taken.
C2_Witness ==
    /\ S >= 2
    /\ op = "add_register"
    /\ ~ret
    /\ arg[1] \notin added
    /\ Cardinality(added) = S
    /\ Cardinality(Attempted) = S + 1

\* -------------------------------------------------------------------- C3

\* C3: a call add_register(r, ...) returns false exactly when, before it, no
\* entry of the current row held r and the free list was empty; otherwise it
\* returns true.
C3_FailsOnlyWhenExhausted ==
    [][\A r \in Regs :
          AddStep(r) =>
             /\ status' = "running"
             /\ ret' = ~(~InRow(r) /\ free_list = NULL)]_vars

\* C3 witness: the call that just returned true updated the regnum of the first
\* entry taken, in a pool of at least two entries with none left free.
C3_Witness ==
    /\ S >= 2
    /\ op = "add_register"
    /\ ret
    /\ free_list = NULL
    /\ entries[0].regnum = arg[1]

\* -------------------------------------------------------------------- C4

\* C4: the free list holds S minus as many entries as distinct regnums were
\* added, all of them entries of the pool: adding a regnum again takes none.
C4_FreeCountIsCapacityMinusAdded ==
    /\ Len(FreeNodes) = S - Cardinality(added)
    /\ \A i \in DOMAIN FreeNodes : FreeNodes[i] \in Pool

\* C4 witness: the call that just returned updated the regnum of the first
\* entry taken, two regnums are added and the pool has an entry left.
C4_Witness ==
    /\ op = "add_register"
    /\ ret
    /\ entries[0].regnum = arg[1]
    /\ Cardinality(added) = 2
    /\ Len(FreeNodes) = S - 2
    /\ free_list # NULL

\* -------------------------------------------------------------------- C5

\* C5: get_register_rule reports not-found for every regnum for which no
\* add_register call has returned true, in every state and in what a call just
\* returned.
C5_NeverAddedIsNotFound ==
    /\ \A r \in Regs \ added : Result(r) = <<"miss">>
    /\ (op = "get_register_rule" /\ arg[1] \notin added) =>
           status = "running" /\ ~ret

\* C5 witness: the call that just reported not-found asked for a regnum whose
\* only add_register call failed, and which shares its bucket with an added one.
C5_Witness ==
    /\ op = "get_register_rule"
    /\ ~ret
    /\ arg[1] \notin added
    /\ lastCall[arg[1]] # <<>>
    /\ \E r \in added : Bucket(r) = Bucket(arg[1])

\* -------------------------------------------------------------------- C6

\* C6: once two different regnums of one bucket are both added, every step
\* leaves get_register_rule giving each its own latest rule and value, and an
\* add_register call for one leaves what is given for the other as it was.
C6_CollidingRegnumsIndependent ==
    [][\A a \in Regs : \A b \in Regs \ {a} :
          (Bucket(a) = Bucket(b) /\ a \in added' /\ b \in added') =>
             /\ Result(a)' = Latest(a)'
             /\ (AddStep(a) /\ b \in added) => Result(b)' = Result(b)]_vars

\* C6 witness: 5 and 20 are both added, 20 first, and the call that just
\* returned fetched for 20 a value that differs from the one 5 was last given.
C6_Witness ==
    /\ {5, 20} \subseteq added
    /\ entries[0].regnum = 20
    /\ op = "get_register_rule"
    /\ arg = <<20>>
    /\ ret
    /\ lastCall[5][2] # value_out

\* -------------------------------------------------------------------- C7

\* C7: with S = 0 the free list is empty after construction (and ever after),
\* every add_register call returns false and every get_register_rule call
\* reports not-found.
C7_EmptyPoolStoresNothing ==
    S = 0 =>
        /\ free_list = NULL
        /\ op = "add_register" => (status = "running" /\ ~ret)
        /\ op = "get_register_rule" => (status = "running" /\ ~ret)

\* -------------------------------------------------------------------- C8

\* The places of the current row's chains.
ChainPlaces ==
    UNION {{<<b, i>> : i \in DOMAIN BucketNodes(b)} : b \in Buckets}

\* In how many places, of the free list and of the chains, address e is found.
PlacesOf(e) ==
    Cardinality({i \in DOMAIN FreeNodes : FreeNodes[i] = e})
    + Cardinality({pl \in ChainPlaces : BucketNodes(pl[1])[pl[2]] = e})

\* C8: every entry of the pool is found in exactly one place, of the free list
\* or of one bucket chain of the current row, and the free list and the chains
\* together have S places.
C8_EveryEntryInOnePlace ==
    /\ \A e \in Pool : PlacesOf(e) = 1
    /\ Len(FreeNodes) + Cardinality(ChainPlaces) = S

\* C8 witness: a chain of two entries and a free entry left.
C8_Witness ==
    /\ free_list # NULL
    /\ Len(BucketNodes(Bucket(5))) = 2
    /\ Len(FreeNodes) = 1

\* -------------------------------------------------------------------- C9

\* C9: no regnum is held in two places of the current row's chains, and every
\* regnum that was added is held in exactly one, by one entry of the pool.
C9_OneEntryPerRegnum ==
    \A r \in Regs :
        /\ Cardinality(Holders(r)) <= 1
        /\ r \in added =>
              /\ Cardinality(Holders(r)) = 1
              /\ \A pl \in Holders(r) : BucketNodes(pl[1])[pl[2]] \in Pool

\* C9 witness: the call that just returned true passed the regnum that the
\* last entry of a chain of two holds, in a pool of two entries.
C9_Witness ==
    /\ op = "add_register"
    /\ ret
    /\ Len(BucketNodes(Bucket(arg[1]))) = 2
    /\ entries[BucketNodes(Bucket(arg[1]))[2]].regnum = arg[1]
    /\ entries[BucketNodes(Bucket(arg[1]))[2]].value = arg[3]
    /\ free_list = NULL
    /\ S = 2

\* ------------------------------------------------------------------- C10

\* C10: a get_register_rule call, hit or miss, leaves the free list, the
\* bucket heads, every field of every entry and the current row as they were.
C10_GetIsReadOnly ==
    [][(op' = "get_register_rule" /\ vars' # vars) =>
          UNCHANGED <<free_list, table_stack, entries, table_pos>>]_vars

\* C10 witness: a call just hit, in a pool where another added regnum was last
\* given a different value.
C10_Witness ==
    /\ op = "get_register_rule"
    /\ ret
    /\ Cardinality(added) >= 2
    /\ \E r \in added \ {arg[1]} : lastCall[r][2] # value_out

\* ------------------------------------------------------------------- C11

\* C11: right after the construction of a pool of S >= 1 entries the free list
\* starts at entry 0, entry i links to entry i + 1 and entry S - 1 to none,
\* every bucket head of the 6 rows is empty, the current row is the first, and
\* the constructor has assigned no entry outside the pool.
C11_ConstructedState ==
    (op = "none" /\ S >= 1) =>
        /\ free_list = 0
        /\ FreeNodes = [i \in 1 .. S |-> i - 1]
        /\ \A i \in Pool : entries[i].next = IF i < S - 1 THEN i + 1 ELSE NULL
        /\ \A row \in 0 .. (NumRows - 1) : \A b \in Buckets : table_stack[row][b] = NULL
        /\ DOMAIN table_stack = 0 .. 5
        /\ table_pos = 0
        /\ CtorWritten(S) \subseteq Pool
        /\ \A f \in {"regnum", "rule", "value", "next"} : entries[S][f] = Indeterminate

\* C11 witness: the constructed state of a pool of three entries.
C11_Witness ==
    /\ op = "none"
    /\ S = 3
    /\ Len(FreeNodes) = 3

\* ------------------------------------------------------------------- C12

\* (Where a step leaves the structure as it was, the chains after it are the
\* chains before it, for which the property was stated by the step before.)
\* Register numbers at the ends of the ranges the architectures allocate, up
\* to the largest number the checker represents.
BoundaryRegs == {0, 14, 15, 8191, 8192, 16383, 2147483647}

\* The bucket of the current row whose chain holds entry e, if any.
BucketsOf(e) ==
    {b \in Buckets : LET nodes == BucketNodes(b)
                     IN  \E i \in DOMAIN nodes : nodes[i] = e}

\* C12: after every step each entry of the chain of bucket b of the current
\* row holds a regnum with regnum mod 15 = b; the bucket computed for a regnum
\* is one of 0..14; and an entry that was in a chain is still in the chain of
\* the same bucket, with the same regnum.
C12_BucketPlacementStable ==
    [][/\ \A r \in Regs \cup BoundaryRegs : Bucket(r) \in 0 .. 14
       /\ \/ UNCHANGED Structure
          \/ /\ \A b \in Buckets :
                   LET nodes == BucketNodes(b)'
                   IN  \A i \in DOMAIN nodes : entries'[nodes[i]].regnum % 15 = b
             /\ \A e \in Pool :
                   LET before == BucketsOf(e)
                   IN  before # {} =>
                          /\ BucketsOf(e)' = before
                          /\ entries'[e].regnum = entries[e].regnum]_vars

\* C12 witness: the chain of bucket 5 holds three entries, the chain of bucket
\* 7 none, and the call that just returned updated the second of the three.
C12_Witness ==
    /\ Len(BucketNodes(5)) = 3
    /\ BucketNodes(7) = <<>>
    /\ op = "add_register"
    /\ repeated
    /\ entries[BucketNodes(5)[2]].regnum = arg[1]

\* ------------------------------------------------------------------- C13

\* C13: an add_register call that returns false leaves the free list, every
\* bucket head, every field of every entry and the current row as they were.
C13_FailedAddChangesNothing ==
    [][\A r \in Regs :
          (AddStep(r) /\ status' = "running" /\ ~ret') =>
             UNCHANGED <<free_list, table_stack, entries, table_pos>>]_vars

\* C13 witness: the call that just returned false found a chain of two entries
\* in the bucket of its regnum, in a pool with a third entry in another bucket.
C13_Witness ==
    /\ op = "add_register"
    /\ ~ret
    /\ ~repeated
    /\ S = 3
    /\ Len(BucketNodes(Bucket(arg[1]))) = 2
    /\ Len(BucketNodes(7)) = 1

\* ------------------------------------------------------------------- C14

\* The entries of the current row's chains that hold regnum r.
HoldingEntries(r) == {BucketNodes(pl[1])[pl[2]] : pl \in Holders(r)}

\* C14: an add_register call that finds its regnum in the current row returns
\* true and changes nothing but the rule and the value of the one entry that
\* holds it, which become those passed: the free list, the bucket heads, the
\* current row, every next and regnum, and every other entry stay as they were.
C14_UpdateTouchesOneEntry ==
    [][\A r \in Regs :
          (AddStep(r) /\ InRow(r)) =>
             /\ status' = "running"
             /\ ret'
             /\ UNCHANGED <<free_list, table_stack, table_pos>>
             /\ LET holding == HoldingEntries(r)
                IN  /\ Cardinality(holding) = 1
                    /\ \A e \in DOMAIN entries :
                          /\ entries'[e].next = entries[e].next
                          /\ entries'[e].regnum = entries[e].regnum
                          /\ e \notin holding => entries'[e] = entries[e]
                          /\ e \in holding =>
                                /\ entries'[e].rule = arg'[2]
                                /\ entries'[e].value = arg'[3]]_vars

\* C14 witness: the call that just returned passed the regnum of entry 0, which
\* has a successor in its chain, so the call found it there; a free entry is left.
C14_Witness ==
    /\ op = "add_register"
    /\ ret
    /\ entries[0].regnum = arg[1]
    /\ entries[0].value = 16
    /\ entries[0].next = 1
    /\ entries[1].value = 8
    /\ free_list = 2

\* ------------------------------------------------------------------- C15

\* C15: an add_register call that repeats the call just made, with the same
\* regnum, rule and value, returns what that call returned and leaves the free
\* list, the bucket heads, the entries and the current row as that call left them.
C15_AddIsIdempotent ==
    [][(op = "add_register" /\ op' = "add_register" /\ arg' = arg) =>
          /\ status' = "running"
          /\ ret' = ret
          /\ UNCHANGED <<free_list, table_stack, entries, table_pos>>]_vars

\* C15 witness: the call that just returned true repeated the call before it,
\* for the regnum that the second entry of a chain of two holds.
C15_Witness ==
    /\ repeated
    /\ op = "add_register"
    /\ ret
    /\ Cardinality(added) = 2
    /\ Len(BucketNodes(Bucket(arg[1]))) = 2
    /\ entries[BucketNodes(Bucket(arg[1]))[2]].regnum = arg[1]

\* ------------------------------------------------------------------- C16

\* The free list and the bucket chains of all rows.
AllLists ==
    {FreeNodes} \cup
    {Chain(entries, table_stack[row][b], S + 2) : row \in 0 .. (NumRows - 1), b \in Buckets}

\* No address occurs twice in the list.
Acyclic(list) ==
    \A i \in DOMAIN list : \A j \in DOMAIN list : i # j => list[i] # list[j]

\* The list runs through entries of the pool and its last entry links to none.
EndsInNull(list) ==
    /\ \A i \in DOMAIN list : list[i] \in Pool
    /\ list # <<>> => entries[list[Len(list)]].next = NULL

\* C16: the free list and every bucket chain are acyclic, hold at most S
\* entries and end in none, and the searches of add_register and of
\* get_register_rule end, for every regnum, within S entries visited (so after
\* at most S next links followed); no call has failed to return.
C16_ListsAcyclicWalksEnd ==
    /\ status = "running"
    /\ \A list \in AllLists : Acyclic(list) /\ EndsInNull(list) /\ Len(list) <= S
    /\ \A r \in Regs :
          /\ AddWalk(entries, table_stack[table_pos][Bucket(r)], r, S).kind
                \in {"found", "end"}
          /\ GetWalk(entries, table_stack[table_pos][Bucket(r)], r, S).kind
                \in {"hit", "miss"}

\* C16 witness: a pool of three entries, all in one chain; the call that just
\* returned found the regnum of the last of them.
C16_Witness ==
    /\ S = 3
    /\ Len(BucketNodes(5)) = 3
    /\ op = "get_register_rule"
    /\ ret
    /\ entries[BucketNodes(5)[3]].regnum = arg[1]

\* ------------------------------------------------------------------- C17

\* (A step that leaves the structure as it was deletes nothing: the lists and
\* the answers below are functions of the structure.)
\* C17: no step makes the free list longer, no entry of a bucket chain leaves
\* the chains or appears on the free list, and a regnum that
\* get_register_rule finds before a step is found after it.
C17_NothingIsDeleted ==
    [][\/ UNCHANGED Structure
       \/ LET freeAfter == FreeNodes'
          IN  /\ Len(freeAfter) <= Len(FreeNodes)
              /\ \A e \in Pool :
                    BucketsOf(e) # {} =>
                       /\ BucketsOf(e)' # {}
                       /\ \A i \in DOMAIN freeAfter : freeAfter[i] # e
              /\ \A r \in Regs :
                    Result(r)[1] = "hit" => Result(r)'[1] = "hit"]_vars

\* C17 witness: three regnums are added and found, the pool is used up, and
\* the call that just returned false tried to add a fourth.
C17_Witness ==
    /\ Cardinality(added) = 3
    /\ \A r \in added : Result(r)[1] = "hit"
    /\ FreeNodes = <<>>
    /\ op = "add_register"
    /\ ~ret

\* ------------------------------------------------------------------- C18

\* C18: no step changes the current row, which is the first; only
\* add_register steps change bucket heads, and only in the first row; the
\* bucket heads of rows 1 to 5 are empty after every step.
C18_OnlyFirstRowUsed ==
    [][/\ table_pos = 0
       /\ table_pos' = table_pos
       /\ table_stack' # table_stack => op' = "add_register"
       /\ \A row \in 1 .. 5 : \A b \in Buckets :
             /\ table_stack'[row][b] = table_stack[row][b]
             /\ table_stack'[row][b] = NULL]_vars

\* C18 witness: two buckets of the first row have a head, the second of them
\* assigned by the call that just returned.
C18_Witness ==
    /\ table_pos = 0
    /\ table_stack[0][5] # NULL
    /\ table_stack[0][7] # NULL
    /\ op = "add_register"
    /\ arg[1] = 7
    /\ entries[table_stack[0][7]].next = NULL
    /\ free_list = NULL
    /\ ~repeated

\* ------------------------------------------------------------------- C19

\* C19: a get_register_rule call that reports not-found leaves the caller's
\* rule and value objects holding what they held; one that reports found has
\* written both, with the rule and the value of the entry that holds the regnum.
C19_OutputsWrittenOnlyOnHit ==
    [][(op' = "get_register_rule" /\ vars' # vars /\ status' = "running") =>
          /\ ~ret' => (rule_out' = rule_out /\ value_out' = value_out)
          /\ ret' =>
                \E e \in HoldingEntries(arg'[1]) :
                    /\ rule_out' = entries[e].rule
                    /\ value_out' = entries[e].value
                    /\ rule_out' \in Rules
                    /\ value_out' \in Vals]_vars

\* C19 witness: the call that just reported not-found left in the caller's
\* objects the rule and the value 16 that an earlier hit had written.
C19_Witness ==
    /\ op = "get_register_rule"
    /\ ~ret
    /\ ~repeated
    /\ rule_out = DWARF_CFA_REG_RULE_OFFSET
    /\ value_out = 16
    /\ \A r \in added : lastCall[r][2] = 8

====
